---------------------------- MODULE Spec2Model ----------------------------
(***************************************************************************)
(* A model of src/src/main.rs of scrapbook-annotate: the line reconstructor *)
(* (extract_text's sort and merge_lines), the polygon mask extractor        *)
(* (ray_intersect, extract_image), the Scaler, and the part of the egui     *)
(* front end that feeds them (vertex clicks, Extract, Append, articles,     *)
(* page navigation).                                                        *)
(*                                                                         *)
(* Numbers.  The program computes in f32.  A normalised coordinate (left,   *)
(* mid.y) is held here as an integer count of 2^-24, so every value used is *)
(* an f32 value; products, differences, quotients and sums are rounded to   *)
(* 24 significant bits, ties to even, as the hardware does.  Image-space    *)
(* coordinates are held as integer counts of 1/Sub pixel and stay small     *)
(* enough that every f32 operation on them is exact; the sign of a zero     *)
(* result is tracked where f32::signum reads it.                            *)
(*                                                                         *)
(* Text.  A String is a sequence of one-character strings.                  *)
(***************************************************************************)
EXTENDS Integers, Sequences, FiniteSets, TLC

VARIABLES
    \* ---- extract_text / merge_lines (one call in progress)
    pc,             \* "idle" | "send" | "merge" | "done" | "panic"
    res,            \* the service's answer: [ok |-> BOOLEAN, lines |-> Seq(Line)]
    lines,          \* the Vec<Line> handed to merge_lines (after the sort)
    image_width,    \* merge_lines' image_width (pixels)
    i,              \* merge_lines' loop index (number of lines consumed)
    text,           \* merge_lines' accumulator
    dehyphenating,  \* merge_lines' flag
    ret,            \* the String extract_text returned
    \* ---- extract_image (one call)
    mask,           \* the outcome of the call of extract_image
    \* ---- MyApp
    image,          \* [w, h] of self.image
    vertexes,       \* self.vertexes, image-space points
    draft_text,     \* self.draft_text
    retained_crop,  \* [w, h] of self.retained_crop
    articles,       \* self.state.page().articles: Seq([polys, text])
    state,          \* self.state: [open_image, pages]; pages[k] is page k's articles as
                    \* they were when it was last left (the open page's are in articles)
    open_article,   \* self.open_article: 0 = None, k = Some(k-1)
    extracted,      \* history: the vertex list and answer of the last Extract
    \* ---- Scaler (calls on one point)
    scaler          \* [sc, start, cur, ops]: the Scaler, the point, the calls made

textVars == <<pc, res, lines, image_width, i, text, dehyphenating, ret>>
appVars == <<image, vertexes, draft_text, retained_crop, articles, open_article, extracted>>
vars == <<pc, res, lines, image_width, i, text, dehyphenating, ret, mask,
          image, vertexes, draft_text, retained_crop, articles, open_article, extracted,
          scaler, state>>

--------------------------------------------------------------------------
(* State *)

\* self.state.images.len()
NumImages == 3

\* State as default() leaves it: the first image open, no page annotated yet.
FirstPage == [open_image |-> 0, pages |-> [k \in 0..(NumImages - 1) |-> <<>>]]

--------------------------------------------------------------------------
(* f32 arithmetic *)

RECURSIVE Pow2(_)
Pow2(k) == IF k = 0 THEN 1 ELSE 2 * Pow2(k - 1)

Abs(n) == IF n < 0 THEN -n ELSE n

\* n/d rounded to the nearest integer, ties to the even one (n >= 0, d > 0).
RoundHalfEven(n, d) ==
    LET q == n \div d
        r == n % d
    IN  IF 2 * r < d THEN q
        ELSE IF 2 * r > d THEN q + 1
        ELSE IF q % 2 = 0 THEN q ELSE q + 1

\* The spacing of the f32 values around n, in n's unit: the least power of two
\* s with n < 2^24 * s.
RECURSIVE Ulp(_)
Ulp(n) == IF n < 16777216 THEN 1 ELSE 2 * Ulp(n \div 2)

\* n rounded to 24 significant bits.  sticky: the exact value lies strictly
\* between n and n + 1 (bits lost by an earlier alignment).
F32Round(n, sticky) ==
    LET s == Ulp(n)
        q == n \div s
        r == n % s
        up == \/ 2 * r > s
              \/ 2 * r = s /\ (sticky \/ q % 2 = 1)
    IN  IF s = 1 THEN n ELSE IF up THEN (q + 1) * s ELSE q * s

\* The tie-break divisor of the sort key.
KeyDivisor == 40

\* a / 40.0 for a counted in 2^-24: the f32 quotient, given in units of 2^-30
\* as [q |-> its integer part, sticky |-> it has bits below 2^-30].
F32DivKey(a) ==
    LET n == a * 64
        RECURSIVE Shift(_)
        Shift(k) == IF n * Pow2(k) >= KeyDivisor * 8388608 THEN k ELSE Shift(k + 1)
    IN  IF a = 0 THEN [q |-> 0, sticky |-> FALSE]
        ELSE IF n >= KeyDivisor * 16777216
             THEN [q |-> 2 * RoundHalfEven(n, 2 * KeyDivisor), sticky |-> FALSE]
        ELSE LET k == Shift(0)
                 m == RoundHalfEven(n * Pow2(k), KeyDivisor)
             IN  [q |-> m \div Pow2(k), sticky |-> m % Pow2(k) # 0]

\* a.mid.y + a.left / 40.0, in units of 2^-30 (mid.y in [1/32, 1]).
SortKey(line) ==
    LET d == F32DivKey(line.left)
    IN  F32Round(line.midy * 64 + d.q, d.sticky)

\* left * image_width, in units of 2^-24 pixel.
F32Mul(a, w) == F32Round(a * w, FALSE)

\* x - y of two f32 values counted in the same unit.
F32Sub(x, y) == IF x >= y THEN F32Round(x - y, FALSE) ELSE -F32Round(y - x, FALSE)

\* Where the exponent varies (the Scaler), a binary32 value is held as [m, e], meaning m * 2^e, with m odd or m = e = 0.
\* Exponents stay far from the ends of the f32 range: no overflow, no subnormals.
RECURSIVE Canon(_, _)
Canon(m, e) ==
    IF m = 0 THEN [m |-> 0, e |-> 0]
    ELSE IF m % 2 = 0 THEN Canon(m \div 2, e + 1)
    ELSE [m |-> m, e |-> e]

\* The same value with a 24-bit significand, 2^23 <= |m| < 2^24 (m # 0).
RECURSIVE Full(_)
Full(a) == IF Abs(a.m) >= 8388608 THEN a ELSE Full([m |-> 2 * a.m, e |-> a.e - 1])

Sign(n) == IF n < 0 THEN -1 ELSE 1

F32Neg(a) == [m |-> -a.m, e |-> a.e]

\* a + b rounded to nearest, ties to even.
F32Add(a, b) ==
    IF a.m = 0 THEN b
    ELSE IF b.m = 0 THEN a
    ELSE LET fa == Full(a)
             fb == Full(b)
             hi == IF fa.e >= fb.e THEN fa ELSE fb
             lo == IF fa.e >= fb.e THEN fb ELSE fa
             d == hi.e - lo.e
         IN  IF d <= 6
             THEN LET n == hi.m * Pow2(d) + lo.m
                  IN  Canon(Sign(n) * F32Round(Abs(n), FALSE), lo.e)
             ELSE LET sh == d - 6
                      H == Abs(hi.m) * 64
                      q == IF sh >= 25 THEN 0 ELSE Abs(lo.m) \div Pow2(sh)
                      exact == sh < 25 /\ Abs(lo.m) % Pow2(sh) = 0
                      same == Sign(hi.m) = Sign(lo.m)
                      mag == IF same THEN H + q
                             ELSE IF exact THEN H - q ELSE H - q - 1
                  IN  Canon(Sign(hi.m) * F32Round(mag, ~exact), hi.e - 6)

F32Minus(a, b) == F32Add(a, F32Neg(b))

\* a * b rounded to nearest, ties to even: the 48-bit product of the two
\* significands is built from 12-bit halves.
F32Times(a, b) ==
    IF a.m = 0 \/ b.m = 0 THEN [m |-> 0, e |-> 0]
    ELSE LET fa == Full(a)
             fb == Full(b)
             A == Abs(fa.m)
             B == Abs(fb.m)
             a1 == A \div 4096
             a0 == A % 4096
             b1 == B \div 4096
             b0 == B % 4096
             mid == a1 * b0 + a0 * b1
             low == (mid % 4096) * 4096 + a0 * b0
             hi == a1 * b1 + mid \div 4096 + low \div 16777216
             lo == low % 16777216
             n == hi * 64 + lo \div 262144
         IN  Canon(Sign(fa.m) * Sign(fb.m) * F32Round(n, lo % 262144 # 0),
                   fa.e + fb.e + 18)

\* a / b rounded to nearest, ties to even (b # 0): 26 quotient bits by long
\* division, the remainder as the sticky bit.
F32Over(a, b) ==
    IF a.m = 0 THEN [m |-> 0, e |-> 0]
    ELSE LET fa == Full(a)
             fb == Full(b)
             A == Abs(fa.m)
             B == Abs(fb.m)
             RECURSIVE Bits(_, _, _)
             Bits(q, r, k) ==
                 IF k = 0 THEN [q |-> q, r |-> r]
                 ELSE IF 2 * r >= B THEN Bits(2 * q + 1, 2 * r - B, k - 1)
                 ELSE Bits(2 * q, 2 * r, k - 1)
             d == Bits(A \div B, A % B, 26)
         IN  Canon(Sign(fa.m) * Sign(fb.m) * F32Round(d.q, d.r # 0),
                   fa.e - fb.e - 26)

F32Abs(a) == [m |-> Abs(a.m), e |-> a.e]

\* a <= b, by the exact values.
F32Leq(a, b) ==
    IF a.m = 0 THEN b.m >= 0
    ELSE IF b.m = 0 THEN a.m < 0
    ELSE IF Sign(a.m) # Sign(b.m) THEN a.m < 0
    ELSE LET fa == Full(a)
             fb == Full(b)
             magLeq == \/ fa.e < fb.e
                       \/ fa.e = fb.e /\ Abs(fa.m) <= Abs(fb.m)
             magGeq == \/ fa.e > fb.e
                       \/ fa.e = fb.e /\ Abs(fa.m) >= Abs(fb.m)
         IN  IF a.m > 0 THEN magLeq ELSE magGeq

--------------------------------------------------------------------------
(* Scaler *)

Vec(x, y) == [x |-> x, y |-> y]

\* ((screen - image_rect.left_top + offset) / scale), each component on its own.
Scaler_screen_to_image(sc, screen) ==
    LET f(c) == F32Over(F32Add(F32Minus(screen[c], sc.left_top[c]), sc.offset[c]),
                        sc.scale)
    IN  Vec(f("x"), f("y"))

\* The same without the pan.
Scaler_image_to_screen_NoPan(sc, img) ==
    LET f(c) == F32Add(F32Times(img[c], sc.scale), sc.left_top[c])
    IN  Vec(f("x"), f("y"))

\* ((image * scale) - offset + image_rect.left_top), each component on its own.
Scaler_image_to_screen(sc, img) ==
    LET f(c) == F32Add(F32Minus(F32Times(img[c], sc.scale), sc.offset[c]),
                       sc.left_top[c])
    IN  Vec(f("x"), f("y"))

F32Zero == [m |-> 0, e |-> 0]

\* No Scaler call is being followed.
NoScaler ==
    [sc |-> [scale |-> [m |-> 1, e |-> 0], offset |-> Vec(F32Zero, F32Zero),
             left_top |-> Vec(F32Zero, F32Zero)],
     start |-> Vec(F32Zero, F32Zero), cur |-> Vec(F32Zero, F32Zero), ops |-> <<>>]

--------------------------------------------------------------------------
(* extract_text: the sort *)

\* a precedes-or-ties b under the comparator of sort_by.
KeyLeq_TopOnly(a, b) == a.midy <= b.midy

KeyLeq(a, b) == SortKey(a) <= SortKey(b)

\* slice::sort_by is stable: equal keys keep the order they came in.
RECURSIVE InsertSorted(_, _)
InsertSorted(s, x) ==
    IF s = <<>> THEN <<x>>
    ELSE IF KeyLeq(s[Len(s)], x) THEN Append(s, x)
    ELSE Append(InsertSorted(SubSeq(s, 1, Len(s) - 1), x), s[Len(s)])

RECURSIVE SortLines(_)
SortLines(s) ==
    IF s = <<>> THEN <<>>
    ELSE InsertSorted(SortLines(SubSeq(s, 1, Len(s) - 1)), s[Len(s)])

--------------------------------------------------------------------------
(* merge_lines *)

NL == "\n"
SP == " "
HY == "-"

\* str::find(" "): the 0-based index of the first space, or -1 (None).
RECURSIVE FindFrom(_, _)
FindFrom(s, k) ==
    IF k > Len(s) THEN -1
    ELSE IF s[k] = SP THEN k - 1
    ELSE FindFrom(s, k + 1)

Find(s) == FindFrom(s, 1)

EndsWithHyphen(s) == Len(s) > 0 /\ s[Len(s)] = HY

\* &s[a..b] panics unless a <= b <= len.
SliceOk(s, a, b) == 0 <= a /\ a <= b /\ b <= Len(s)
Slice(s, a, b) == SubSeq(s, a + 1, b)

IndentMin == 8
IndentMax == 40

\* The paragraph-indent test for the line at 0-based index k.
InRange_Inclusive(gap) == IndentMin * 16777216 <= gap /\ gap <= IndentMax * 16777216

InRange(gap) == IndentMin * 16777216 < gap /\ gap < IndentMax * 16777216

IsIndented(ls, w, k) ==
    /\ k > 0
    /\ k + 1 < Len(ls)
    /\ LET x0 == F32Mul(ls[k].left, w)
           x1 == F32Mul(ls[k + 1].left, w)
           x2 == F32Mul(ls[k + 2].left, w)
       IN  InRange(F32Sub(x1, x0)) /\ InRange(F32Sub(x1, x2))

\* Where the rest of a line starts once its first word went to the broken word.
RestStart_KeepsSpace(space) == space

RestStart_SkipsTwo(space) == space + 2

RestStart(space) == space + 1

\* One iteration of the loop, for the line at 0-based index k:
\* [text, dehyphenating, panic].
MergeLine(ls, w, k, t, d) ==
    LET line == ls[k + 1].text
        space == Find(line)
        split == d /\ space >= 0
        t1 == IF split THEN t \o Slice(line, 0, space) \o <<NL>>
              ELSE IF ~d /\ IsIndented(ls, w, k) THEN t \o <<NL>>
              ELSE t
        start == IF split THEN RestStart(space) ELSE 0
    IN  IF EndsWithHyphen(line)
        THEN IF SliceOk(line, start, Len(line) - 1)
             THEN [text |-> t1 \o Slice(line, start, Len(line) - 1),
                   dehyphenating |-> TRUE, panic |-> FALSE]
             ELSE [text |-> t1, dehyphenating |-> d, panic |-> TRUE]
        ELSE IF SliceOk(line, start, Len(line))
             THEN [text |-> t1 \o Slice(line, start, Len(line)) \o <<NL>>,
                   dehyphenating |-> FALSE, panic |-> FALSE]
             ELSE [text |-> t1, dehyphenating |-> d, panic |-> TRUE]

\* The whole of merge_lines from index k on: [text, panic].
RECURSIVE MergeFrom(_, _, _, _, _)
MergeFrom(ls, w, k, t, d) ==
    IF k >= Len(ls) THEN [text |-> t, panic |-> FALSE]
    ELSE LET m == MergeLine(ls, w, k, t, d)
         IN  IF m.panic THEN [text |-> m.text, panic |-> TRUE]
             ELSE MergeFrom(ls, w, k + 1, m.text, m.dehyphenating)

merge_lines(ls, w) == MergeFrom(ls, w, 0, <<>>, FALSE)

--------------------------------------------------------------------------
(* ray_intersect and extract_image *)

\* Image-space coordinates are counted in 1/Sub pixel.
Sub == 2

Margin == 4

Pt(x, y) == [x |-> x, y |-> y]

\* f32::signum of a difference of two finite values: a zero difference is +0.0,
\* and signum(+0.0) = 1.0.
Signum(d) == IF d >= 0 THEN 1 ELSE -1

\* a * b is -0.0: it is zero and one factor is negative (the other is +0.0).
IsNegZero(a, b) == a * b = 0 /\ (a < 0 \/ b < 0)

\* signum(a * b + c * d): a zero sum is -0.0 only when both products are.
SignumOfSum(a, b, c, d) ==
    LET v == a * b + c * d
    IN  IF v > 0 THEN 1
        ELSE IF v < 0 THEN -1
        ELSE IF IsNegZero(a, b) /\ IsNegZero(c, d) THEN -1
        ELSE 1

ray_intersect_AnyStraddle(ox, oy, ax, ay, bx, by) ==
    Signum(ay - oy) # Signum(by - oy)

ray_intersect(ox, oy, ax, ay, bx, by) ==
    IF Signum(ay - oy) = Signum(by - oy) THEN FALSE
    ELSE LET s0 == SignumOfSum(ox - ax, by - ay, oy - ay, ax - bx)
             s1 == Signum(by - ay)
         IN  s0 # s1

Min(S) == CHOOSE m \in S : \A n \in S : m <= n
Max(S) == CHOOSE m \in S : \A n \in S : m >= n

\* (v as i32): towards zero.  v is counted in 1/Sub; the magnitudes here are
\* far from i32's ends, where the cast saturates.
AsI32(v) == IF v >= 0 THEN v \div Sub ELSE -((-v) \div Sub)

Clamp(v, lo, hi) == IF v < lo THEN lo ELSE IF v > hi THEN hi ELSE v

CropEdge_Unclamped(v, limit) == AsI32(v)

\* One edge of the crop box: ((v) as i32).clamp(0, limit) as u32.
CropEdge(v, limit) == Clamp(AsI32(v), 0, limit)

\* The crop box of a non-empty vertex list.
CropBox(vs, img) ==
    LET xs == {vs[k].x : k \in 1..Len(vs)}
        ys == {vs[k].y : k \in 1..Len(vs)}
    IN  [x0 |-> CropEdge(Min(xs) - Margin * Sub, img.w),
         x1 |-> CropEdge(Max(xs) + Margin * Sub, img.w),
         y0 |-> CropEdge(Min(ys) - Margin * Sub, img.h),
         y1 |-> CropEdge(Max(ys) + Margin * Sub, img.h)]

ClosedShape_Open(vs) == vs

\* vertexes.push(self.vertexes[0])
ClosedShape(vs) == Append(vs, vs[1])

\* windows(2) of the closed shape, relative to the crop's corner.
EdgeLines(vs, box) ==
    LET c == ClosedShape(vs)
    IN  [k \in 1..(Len(c) - 1) |->
            [ax |-> c[k].x - box.x0 * Sub, ay |-> c[k].y - box.y0 * Sub,
             bx |-> c[k + 1].x - box.x0 * Sub, by |-> c[k + 1].y - box.y0 * Sub]]

Crossings(ls, x, y) ==
    Cardinality({k \in 1..Len(ls) :
        ray_intersect(x * Sub, y * Sub, ls[k].ax, ls[k].ay, ls[k].bx, ls[k].by)})

\* The crop pixels copied from the page (the others are painted grey).
InsidePixels(vs, box) ==
    LET ls == EdgeLines(vs, box)
    IN  {p \in (0..(box.x1 - box.x0 - 1)) \X (0..(box.y1 - box.y0 - 1)) :
            Crossings(ls, p[1], p[2]) % 2 = 1}

NoBox == [x0 |-> 0, x1 |-> 0, y0 |-> 0, y1 |-> 0]

\* No call has been made.
NotCalled == [kind |-> "idle", box |-> NoBox, inside |-> {}]

Panicked == [kind |-> "panic", box |-> NoBox, inside |-> {}]

\* What a call of extract_image can end in.  There is no Result: it returns the
\* JPEG bytes of the crop ("crop") or panics.  An empty list panics at the
\* first unwrap; x1 - x0 cannot be formed if x1 < x0; get_pixel panics outside
\* the page; the encoder's answer for a crop of zero width or height is the
\* image crate's, so both of its outcomes are kept.
ExtractImageOutcomes(vs, img) ==
    IF vs = <<>> THEN {Panicked}
    ELSE LET box == CropBox(vs, img)
         IN  IF box.x1 < box.x0 \/ box.y1 < box.y0 THEN {Panicked}
             ELSE LET ins == InsidePixels(vs, box)
                      crop == [kind |-> "crop", box |-> box, inside |-> ins]
                  IN  IF \E p \in ins : box.x0 + p[1] >= img.w \/ box.y0 + p[2] >= img.h
                      THEN {Panicked}
                      ELSE IF box.x1 = box.x0 \/ box.y1 = box.y0
                      THEN {crop, [kind |-> "panic", box |-> box, inside |-> {}]}
                      ELSE {crop}

\* A call of extract_image on the current vertex list.
ExtractImage ==
    /\ mask = NotCalled
    /\ mask' \in ExtractImageOutcomes(vertexes, image)
    /\ retained_crop' = IF mask'.kind = "crop"
                        THEN [w |-> mask'.box.x1 - mask'.box.x0,
                              h |-> mask'.box.y1 - mask'.box.y0]
                        ELSE retained_crop
    /\ UNCHANGED textVars
    /\ UNCHANGED <<image, vertexes, draft_text, articles, open_article, extracted>>
    /\ UNCHANGED <<scaler, state>>

NextMask == ExtractImage

--------------------------------------------------------------------------
(* extract_text as a process: the answer arrives, the lines are sorted,     *)
(* merge_lines runs one line per step, the String is returned.              *)

\* format!("Error: {:?}", err), held as one token.
ErrorText == <<"Error: ServiceError">>

NoLines == <<>>

\* Err(err): the String is the formatted error.
ExtractTextErr ==
    /\ pc = "send"
    /\ ~res.ok
    /\ ret' = ErrorText
    /\ pc' = "done"
    /\ UNCHANGED <<res, lines, image_width, i, text, dehyphenating, mask>>
    /\ UNCHANGED appVars
    /\ UNCHANGED <<scaler, state>>

\* Ok(doc): collect the LINE blocks, sort them, enter merge_lines.
ExtractTextOk ==
    /\ pc = "send"
    /\ res.ok
    /\ lines' = SortLines(res.lines)
    /\ image_width' = retained_crop.w
    /\ i' = 0
    /\ text' = <<>>
    /\ dehyphenating' = FALSE
    /\ pc' = "merge"
    /\ UNCHANGED <<res, ret, mask>>
    /\ UNCHANGED appVars
    /\ UNCHANGED <<scaler, state>>

\* One iteration of merge_lines' loop.
MergeIter ==
    /\ pc = "merge"
    /\ i < Len(lines)
    /\ LET m == MergeLine(lines, image_width, i, text, dehyphenating)
       IN  /\ text' = m.text
           /\ dehyphenating' = m.dehyphenating
           /\ i' = IF m.panic THEN i ELSE i + 1
           /\ pc' = IF m.panic THEN "panic" ELSE "merge"
    /\ UNCHANGED <<res, lines, image_width, ret, mask>>
    /\ UNCHANGED appVars
    /\ UNCHANGED <<scaler, state>>

\* The loop is over: merge_lines returns text, extract_text returns it.
MergeReturn ==
    /\ pc = "merge"
    /\ i = Len(lines)
    /\ ret' = text
    /\ pc' = "done"
    /\ UNCHANGED <<res, lines, image_width, i, text, dehyphenating, mask>>
    /\ UNCHANGED appVars
    /\ UNCHANGED <<scaler, state>>

NextText == ExtractTextErr \/ ExtractTextOk \/ MergeIter \/ MergeReturn

--------------------------------------------------------------------------
(* The answers the service is given to return *)

MaxLines == 3

Ln(t, l, y) == [text |-> t, left |-> l, midy |-> y]

\* All sequences over S of length lo..hi.
SeqsOf(S, lo, hi) == UNION {[1..n -> S] : n \in lo..hi}

Texts ==
    { <<>>, <<"-">>, <<"a">>, <<"a", "-">>, <<"a", " ", "b">>,
      <<"a", " ", "b", "-">>, <<" ", "b">>, <<"c", " ", "-">> }

\* left = px / 64 for px in 0, 8, 9, 25, 40, 50, counted in 2^-24.
PixelLefts == {px * 262144 : px \in {0, 8, 9, 25, 40, 50}}

CropWidths == {32, 64}

\* Line k of a page read top to bottom sits at mid.y = k / 8.
Stacked(s) == [k \in 1..Len(s) |-> Ln(s[k].text, s[k].left, k * 2097152)]

TextAnswers ==
    {Stacked(s) : s \in SeqsOf({Ln(t, 0, 0) : t \in Texts}, 0, MaxLines)}

IndentAnswers ==
    {Stacked(s) :
        s \in SeqsOf({Ln(t, l, 0) : t \in {<<"a">>, <<"a", "-">>}, l \in PixelLefts},
                     1, MaxLines)}

\* Fragments of one visual line: mid.y 0.5 or one ulp below it, left about 0.1,
\* 0.5, the f32 value next above 0.5 and 0.5 + 2^-16, in whatever order the
\* service likes.
KeyAnswers ==
    SeqsOf({Ln(<<"a">>, l, y) : l \in {1677722, 8388608, 8388609, 8388864},
                                y \in {8388607, 8388608}},
           2, MaxLines)

Answers ==
    {[ok |-> TRUE, lines |-> s] : s \in TextAnswers \cup IndentAnswers \cup KeyAnswers}
        \cup {[ok |-> FALSE, lines |-> NoLines]}

InitText ==
    /\ pc = "send"
    /\ res \in Answers
    /\ lines = <<>>
    /\ image_width = 0
    /\ i = 0
    /\ text = <<>>
    /\ dehyphenating = FALSE
    /\ ret = <<>>
    /\ mask = NotCalled
    /\ image = [w |-> 1, h |-> 1]
    /\ vertexes = <<>>
    /\ draft_text = <<>>
    /\ retained_crop \in {[w |-> w, h |-> 1] : w \in CropWidths}
    /\ articles = <<>>
    /\ open_article = 0
    /\ extracted = [called |-> FALSE, vertexes |-> <<>>, ok |-> TRUE, string |-> <<>>]
    /\ scaler = NoScaler
    /\ state = FirstPage

SpecText == InitText /\ [][NextText]_vars

--------------------------------------------------------------------------
(* The front end: one action per input event of a frame of update() *)

MaxVertexes == 5
MaxArticles == 1
MaxPolys == 1

MaxArticleText == 1

\* The articles of page k.
ArticlesOf(k) == IF k = state.open_image THEN articles ELSE state.pages[k]

\* The articles of all pages together.
TotalArticles ==
    LET RECURSIVE Sum(_)
        Sum(k) == IF k < 0 THEN 0 ELSE Len(ArticlesOf(k)) + Sum(k - 1)
    IN  Sum(NumImages - 1)

\* The polygons of all pages together.
AllPolys ==
    LET RECURSIVE InPage(_, _)
        InPage(as, n) == IF n = 0 THEN 0 ELSE Len(as[n].polys) + InPage(as, n - 1)
        RECURSIVE Sum(_)
        Sum(k) == IF k < 0 THEN 0
                  ELSE InPage(ArticlesOf(k), Len(ArticlesOf(k))) + Sum(k - 1)
    IN  Sum(NumImages - 1)

\* DEFAULT_SCALE = 0.125: one screen unit is 8 image pixels.
PixelsPerScreenUnit == 8

\* Scaler::screen_to_image with the viewport at the origin and no pan:
\* screen / 0.125, exact in f32.
screen_to_image(p) == Pt(p.x * PixelsPerScreenUnit * Sub, p.y * PixelsPerScreenUnit * Sub)

\* Where the pointer can be when a button is clicked (screen units).
PointerPositions == {Pt(1, 1)}

\* The page load_image has put in self.image.
Page == [w |-> 12, h |-> 10]

\* What the service can answer to an Extract.
UiAnswers ==
    { [ok |-> TRUE, lines |-> NoLines],
      [ok |-> TRUE, lines |-> <<Ln(<<"a", " ", "b">>, 0, 4194304), Ln(<<"a", "-">>, 0, 2097152)>>],
      [ok |-> FALSE, lines |-> NoLines] }

\* What the user can type over the draft.
TypedDrafts == {<<"x">>}

\* A panic ends the program.
Running == mask.kind # "panic" /\ pc # "panic"

\* The list with the hover vertex of a frame pushed, and left in.
AtPopup_HoverKept(vs, shift, hover) ==
    IF vs # <<>> /\ shift THEN Append(vs, screen_to_image(hover)) ELSE vs

\* self.vertexes as the frame has it when it decides on the popup: with shift
\* held the hover position was pushed as a temporary vertex for the drawing,
\* and popped again.
AtPopup(vs, shift, hover) ==
    LET temp_vertex == vs # <<>> /\ shift
        drawn == IF temp_vertex THEN Append(vs, screen_to_image(hover)) ELSE vs
    IN  IF temp_vertex THEN SubSeq(drawn, 1, Len(drawn) - 1) ELSE drawn

\* The popup is laid out only while there are at least 4 vertices.
PopupShown ==
    \E shift \in BOOLEAN, hover \in PointerPositions :
        Len(AtPopup(vertexes, shift, hover)) >= 4

IsSpace(c) == c = SP \/ c = NL

RECURSIVE TrimEnd(_)
TrimEnd(s) ==
    IF s # <<>> /\ IsSpace(s[Len(s)]) THEN TrimEnd(SubSeq(s, 1, Len(s) - 1)) ELSE s

\* Middle click on the page: the last vertex goes.
MiddleClick ==
    /\ Running
    /\ vertexes # <<>>
    /\ vertexes' = SubSeq(vertexes, 1, Len(vertexes) - 1)
    /\ UNCHANGED textVars
    /\ UNCHANGED <<mask, image, draft_text, retained_crop, articles, open_article, extracted>>
    /\ UNCHANGED <<scaler, state>>

\* Primary click on the page: without shift the list starts over.  (With shift
\* held the frame also pushes the hover position and pops it again before the
\* popup is laid out.)
PrimaryClick ==
    /\ Running
    /\ \E p \in PointerPositions, shift \in BOOLEAN :
          LET kept == IF shift THEN vertexes ELSE <<>>
          IN  /\ Len(kept) < MaxVertexes
              /\ vertexes' = Append(kept, screen_to_image(p))
    /\ UNCHANGED textVars
    /\ UNCHANGED <<mask, image, draft_text, retained_crop, articles, open_article, extracted>>
    /\ UNCHANGED <<scaler, state>>

\* The Extract button: extract_image, then extract_text on its bytes; the
\* String becomes the draft.
Extract ==
    /\ Running
    /\ PopupShown
    /\ \E out \in ExtractImageOutcomes(vertexes, image), answer \in UiAnswers :
          /\ mask' = out
          /\ IF out.kind = "panic"
             THEN UNCHANGED <<pc, draft_text, retained_crop, extracted>>
             ELSE LET width == out.box.x1 - out.box.x0
                      merged == merge_lines(SortLines(answer.lines), width)
                      string == IF answer.ok THEN merged.text ELSE ErrorText
                  IN  /\ pc' = IF answer.ok /\ merged.panic THEN "panic" ELSE pc
                      /\ draft_text' = IF answer.ok /\ merged.panic THEN draft_text ELSE string
                      /\ retained_crop' = [w |-> width, h |-> out.box.y1 - out.box.y0]
                      /\ extracted' = [called |-> TRUE, vertexes |-> vertexes,
                                       ok |-> answer.ok, string |-> string]
    /\ UNCHANGED <<res, lines, image_width, i, text, dehyphenating, ret>>
    /\ UNCHANGED <<image, vertexes, articles, open_article>>
    /\ UNCHANGED <<scaler, state>>

TotalPolys ==
    LET RECURSIVE Sum(_)
        Sum(k) == IF k = 0 THEN 0 ELSE Len(articles[k].polys) + Sum(k - 1)
    IN  Sum(Len(articles))

\* articles[i].text.push_str(..); articles[i].polys.push(self.vertexes.clone())
Appended(lead) ==
    [articles EXCEPT ![open_article] =
        [polys |-> Append(@.polys, vertexes),
         text |-> @.text \o lead \o TrimEnd(draft_text) \o <<NL>>]]

\* The Append button.
AppendDraft ==
    /\ Running
    /\ PopupShown
    /\ AllPolys < MaxPolys
    /\ IF open_article = 0 THEN TRUE
       ELSE Len(articles[open_article].text) < MaxArticleText
    /\ articles' = IF open_article # 0 THEN Appended(<<>>) ELSE articles
    /\ UNCHANGED textVars
    /\ UNCHANGED <<mask, image, vertexes, draft_text, retained_crop, open_article, extracted>>
    /\ UNCHANGED <<scaler, state>>

\* The Append P button.
AppendParagraph ==
    /\ Running
    /\ PopupShown
    /\ AllPolys < MaxPolys
    /\ IF open_article = 0 THEN TRUE
       ELSE Len(articles[open_article].text) < MaxArticleText
    /\ articles' = IF open_article # 0 THEN Appended(<<NL>>) ELSE articles
    /\ UNCHANGED textVars
    /\ UNCHANGED <<mask, image, vertexes, draft_text, retained_crop, open_article, extracted>>
    /\ UNCHANGED <<scaler, state>>

\* The draft's text box.  (The # button, which also rewrites draft_text only,
\* is not modelled.)
EditDraft ==
    /\ Running
    /\ PopupShown
    /\ draft_text' \in TypedDrafts
    /\ UNCHANGED textVars
    /\ UNCHANGED <<mask, image, vertexes, retained_crop, articles, open_article, extracted>>
    /\ UNCHANGED <<scaler, state>>

\* new_article: behind the popup's Article button and the sidebar's New article.
new_article ==
    /\ articles' = Append(articles, [polys |-> <<>>, text |-> <<>>])
    /\ open_article' = Len(articles) + 1

ArticleButton ==
    /\ Running
    /\ PopupShown
    /\ TotalArticles < MaxArticles
    /\ new_article
    /\ UNCHANGED textVars
    /\ UNCHANGED <<mask, image, vertexes, draft_text, retained_crop, extracted>>
    /\ UNCHANGED <<scaler, state>>

NewArticleButton ==
    /\ Running
    /\ TotalArticles < MaxArticles
    /\ new_article
    /\ UNCHANGED textVars
    /\ UNCHANGED <<mask, image, vertexes, draft_text, retained_crop, extracted>>
    /\ UNCHANGED <<scaler, state>>

Init ==
    /\ pc = "idle"
    /\ res = [ok |-> TRUE, lines |-> NoLines]
    /\ lines = <<>>
    /\ image_width = 0
    /\ i = 0
    /\ text = <<>>
    /\ dehyphenating = FALSE
    /\ ret = <<>>
    /\ mask = NotCalled
    /\ image = Page
    /\ vertexes = <<>>
    /\ draft_text = <<>>
    /\ retained_crop = [w |-> 1, h |-> 1]
    /\ articles = <<>>
    /\ open_article = 0
    /\ extracted = [called |-> FALSE, vertexes |-> <<>>, ok |-> TRUE, string |-> <<>>]
    /\ scaler = NoScaler
    /\ state = FirstPage

Next ==
    \/ MiddleClick
    \/ PrimaryClick
    \/ Extract
    \/ AppendDraft
    \/ AppendParagraph
    \/ EditDraft
    \/ ArticleButton
    \/ NewArticleButton

Spec == Init /\ [][Next]_vars

--------------------------------------------------------------------------
(* The sidebar: page navigation and the article list *)

\* The step of the << and >> buttons.
NavJump == 10

RemoveAt(s, k) == SubSeq(s, 1, k - 1) \o SubSeq(s, k + 1, Len(s))

InsertAt(s, k, v) == SubSeq(s, 1, k - 1) \o <<v>> \o SubSeq(s, k, Len(s))

\* String::from("[NOTE] ")
NoteText == <<"[", "N", "O", "T", "E", "]", " ">>

\* self.state.open_image = k; self.open_article = None; self.load_image().
\* Afterwards state.page() is page k.
OpenImage(k) ==
    /\ state' = [open_image |-> k,
                 pages |-> [state.pages EXCEPT ![state.open_image] = articles]]
    /\ articles' = IF k = state.open_image THEN articles ELSE state.pages[k]
    /\ open_article' = 0
    /\ UNCHANGED textVars
    /\ UNCHANGED <<mask, image, vertexes, draft_text, retained_crop, extracted, scaler>>

\* <<
NavBack10 ==
    /\ Running
    /\ state.open_image > 0
    /\ OpenImage(IF state.open_image < NavJump THEN 0 ELSE state.open_image - NavJump)

\* <
NavBack ==
    /\ Running
    /\ state.open_image > 0
    /\ OpenImage(state.open_image - 1)

\* The page-number box: a number other than the one shown has been typed.
PageNumberEdit ==
    /\ Running
    /\ \E typed \in 0..NumImages :
          /\ typed # state.open_image
          /\ OpenImage(Clamp(typed, 0, NumImages - 1))

\* >
NavForward ==
    /\ Running
    /\ state.open_image + 1 < NumImages
    /\ OpenImage(state.open_image + 1)

\* >>
NavForward10 ==
    /\ Running
    /\ state.open_image + 1 < NumImages
    /\ OpenImage(Min({NumImages - 1, state.open_image + NavJump}))

\* Delete article: enabled while an article is open and its text is empty.
DeleteArticle_KeepsOpen ==
    /\ Running
    /\ open_article # 0
    /\ articles[open_article].text = <<>>
    /\ articles' = RemoveAt(articles, open_article)
    /\ UNCHANGED textVars
    /\ UNCHANGED <<mask, image, vertexes, draft_text, retained_crop, extracted, scaler,
                   state, open_article>>

DeleteArticle ==
    /\ Running
    /\ open_article # 0
    /\ articles[open_article].text = <<>>
    /\ articles' = RemoveAt(articles, open_article)
    /\ open_article' = 0
    /\ UNCHANGED textVars
    /\ UNCHANGED <<mask, image, vertexes, draft_text, retained_crop, extracted, scaler,
                   state>>

\* +N in front of an article: a note is inserted there and opened.
InsertNote ==
    /\ Running
    /\ TotalArticles <= MaxArticles
    /\ \E article_id \in 1..Len(articles) :
          /\ articles' = InsertAt(articles, article_id, [polys |-> <<>>, text |-> NoteText])
          /\ open_article' = article_id
    /\ UNCHANGED textVars
    /\ UNCHANGED <<mask, image, vertexes, draft_text, retained_crop, extracted, scaler,
                   state>>

\* A click on an article's header opens it, or closes it when it is the open one.
HeaderToggle ==
    /\ Running
    /\ \E article_id \in 1..Len(articles) :
          open_article' = IF open_article = article_id THEN 0 ELSE article_id
    /\ UNCHANGED textVars
    /\ UNCHANGED <<mask, image, vertexes, draft_text, retained_crop, extracted, scaler,
                   state, articles>>

\* The - button of a polygon; the list is laid out for the open article only.
PolygonDelete ==
    /\ Running
    /\ open_article # 0
    /\ \E d \in 1..Len(articles[open_article].polys) :
          articles' = [articles EXCEPT ![open_article].polys = RemoveAt(@, d)]
    /\ UNCHANGED textVars
    /\ UNCHANGED <<mask, image, vertexes, draft_text, retained_crop, extracted, scaler,
                   state, open_article>>

\* Everything that reads or writes open_article or an article list.
NextArticles ==
    \/ AppendDraft
    \/ AppendParagraph
    \/ ArticleButton
    \/ NewArticleButton
    \/ NavBack10
    \/ NavBack
    \/ PageNumberEdit
    \/ NavForward
    \/ NavForward10
    \/ DeleteArticle
    \/ InsertNote
    \/ HeaderToggle
    \/ PolygonDelete

\* Four vertices have been clicked on the first page; nothing else has happened.
InitArticles ==
    /\ pc = "idle"
    /\ res = [ok |-> TRUE, lines |-> NoLines]
    /\ lines = <<>>
    /\ image_width = 0
    /\ i = 0
    /\ text = <<>>
    /\ dehyphenating = FALSE
    /\ ret = <<>>
    /\ mask = NotCalled
    /\ image = Page
    /\ vertexes = [k \in 1..4 |-> screen_to_image(Pt(1, 1))]
    /\ draft_text = <<>>
    /\ retained_crop = [w |-> 1, h |-> 1]
    /\ articles = <<>>
    /\ open_article = 0
    /\ extracted = [called |-> FALSE, vertexes |-> <<>>, ok |-> TRUE, string |-> <<>>]
    /\ scaler = NoScaler
    /\ state = FirstPage

SpecArticles == InitArticles /\ [][NextArticles]_vars

\* C13: open_article is None or the index of an article of the open page.
C13_OpenArticleInRange ==
    open_article \in 0..Len(articles)

\* On the second page a note has been put in front of an article and is the
\* open one.
C13_Witness ==
    /\ state.open_image = 1
    /\ Len(articles) = 2
    /\ articles[1].text = NoteText
    /\ open_article = 1

--------------------------------------------------------------------------
(* Properties of the line reconstructor *)

Contains(s, sub) ==
    \E o \in 0..(Len(s) - Len(sub)) : SubSeq(s, o + 1, o + Len(sub)) = sub

EndsWith(s, suf) ==
    Len(s) >= Len(suf) /\ SubSeq(s, Len(s) - Len(suf) + 1, Len(s)) = suf

StripHyphen(s) == SubSeq(s, 1, Len(s) - 1)

HasSpace(s) == \E k \in 1..Len(s) : s[k] = SP

FirstSpace(s) == CHOOSE k \in 1..Len(s) : s[k] = SP /\ \A j \in 1..(k - 1) : s[j] # SP

FirstWord(s) == SubSeq(s, 1, FirstSpace(s) - 1)

AfterFirstWord(s) == SubSeq(s, FirstSpace(s) + 1, Len(s))

\* What an ordinary line contributes: its text and a newline, or its text
\* without the trailing hyphen.
Ordinary(s) == IF EndsWithHyphen(s) THEN StripHyphen(s) ELSE s \o <<NL>>

\* The step that consumes the line after a hyphen-ended one, that line having
\* a space.  prev and cur are the two lines' texts.
RepairStep ==
    /\ pc = "merge" /\ pc' = "merge" /\ i' = i + 1
    /\ i >= 1
    /\ EndsWithHyphen(lines[i].text)
    /\ HasSpace(lines[i + 1].text)

RepairAppends ==
    LET cur == lines[i + 1].text
    IN  text' = text \o FirstWord(cur) \o <<NL>> \o Ordinary(AfterFirstWord(cur))

\* The part of the hyphen-ended line that merge_lines emitted for it as a line
\* of its own: all of it, or what follows its first space when it completed a
\* broken word itself.
EmittedPart(k) ==
    IF k >= 2 /\ EndsWithHyphen(lines[k - 1].text) /\ HasSpace(lines[k].text)
    THEN AfterFirstWord(lines[k].text)
    ELSE lines[k].text

\* C1 as claimed: when line i ends with "-" and line i+1 has a space, the output
\* so far ends with the whole text of line i less its hyphen, and the step
\* appends line i+1's first word, a newline and the rest as an ordinary line.
C1_WholeLineThenWord ==
    [][RepairStep => /\ EndsWith(text, StripHyphen(lines[i].text))
                     /\ RepairAppends]_vars

\* C1 amended: the same, with the part of line i that was emitted as line i's
\* own text in place of its whole text (they differ when line i itself
\* completed a broken word and was split at its first space).
C1_HyphenRepair ==
    [][RepairStep => /\ EndsWith(text, StripHyphen(EmittedPart(i)))
                     /\ RepairAppends]_vars

\* "a-", "a b" has been merged into "aa\nb\n".
C1_Witness ==
    /\ pc = "done"
    /\ Len(lines) = 2
    /\ lines[1].text = <<"a", "-">>
    /\ lines[2].text = <<"a", " ", "b">>
    /\ ret = <<"a", "a", NL, "b", NL>>

\* The step that consumes a line with no space after a hyphen-ended one.
NoSpaceStep ==
    /\ pc = "merge"
    /\ i < Len(lines)
    /\ dehyphenating
    /\ ~HasSpace(lines[i + 1].text)

StartsWith(s, pre) == Len(s) >= Len(pre) /\ SubSeq(s, 1, Len(pre)) = pre

\* No slice of merge_lines is out of range, and zero lines give the empty
\* string.
NeverFails ==
    /\ [](pc # "panic")
    /\ []((pc = "done" /\ res.ok /\ res.lines = NoLines) => ret = <<>>)

\* C11 as claimed: merge_lines never panics, zero lines give the empty string,
\* and a line with no space that follows a hyphen-ended line is appended whole,
\* directly after the broken word.
C11_WholeTextContinues ==
    /\ NeverFails
    /\ [][NoSpaceStep => /\ pc' = "merge"
                         /\ StartsWith(text', text \o lines[i + 1].text)]_vars

\* C11 amended: the same, the line being appended as an ordinary line is: its
\* whole text and a newline, or, when it ends with "-" itself, its text without
\* that hyphen and the word goes on into the next line.
C11_NeverFailsNoSkip ==
    /\ NeverFails
    /\ [][NoSpaceStep => /\ pc' = "merge"
                         /\ text' = text \o Ordinary(lines[i + 1].text)
                         /\ dehyphenating' = EndsWithHyphen(lines[i + 1].text)]_vars

\* "c -", "-", "a" has been merged into "c a\n": a line that is just "-" and a
\* line with no space, each after a hyphen-ended line.
C11_Witness ==
    /\ pc = "done"
    /\ Len(lines) = 3
    /\ lines[1].text = <<"c", " ", "-">>
    /\ lines[2].text = <<"-">>
    /\ lines[3].text = <<"a">>
    /\ ret = <<"c", " ", "a", NL>>

\* The gap between two lefts in pixels of the crop, times 2^24.
PixelGap(a, b) == (a - b) * image_width

\* The claim's condition for a break before the line at 0-based index k.
BreakExpected(k) ==
    /\ k >= 1
    /\ k + 1 < Len(lines)
    /\ ~EndsWithHyphen(lines[k].text)
    /\ \A n \in {k, k + 2} :
          LET gap == PixelGap(lines[k + 1].left, lines[n].left)
          IN  8 * 16777216 < gap /\ gap < 40 * 16777216

\* The characters a line adds when no paragraph break is put before it.
PlainLen(s) == IF EndsWithHyphen(s) THEN Len(s) - 1 ELSE Len(s) + 1

\* C2: the step for line i adds one extra newline, ahead of everything else it
\* adds, exactly when the previous line had no trailing hyphen, line i is
\* inside the sequence and both pixel gaps lie strictly between 8 and 40.
C2_ParagraphBreakIff ==
    [][(pc = "merge" /\ pc' = "merge" /\ i' = i + 1) =>
        LET cur == lines[i + 1].text
        IN  IF BreakExpected(i)
            THEN /\ Len(text') = Len(text) + 1 + PlainLen(cur)
                 /\ text' = text \o <<NL>> \o Ordinary(cur)
            ELSE Len(text') = Len(text) + PlainLen(cur)]_vars

\* Pixel lefts 0, 25, 0 in a crop 64 wide: the break is in front of line 2.
C2_Witness ==
    /\ pc = "done"
    /\ image_width = 64
    /\ Len(lines) = 3
    /\ <<lines[1].left, lines[2].left, lines[3].left>> = <<0, 25 * 262144, 0>>
    /\ ret = <<"a", NL, NL, "a", NL, "a", NL>>

Sorted == pc \in {"merge", "done"} /\ res.ok

\* C10 as claimed: in the sorted sequence a line precedes every line with a
\* larger left whose mid.y is less than (difference of the lefts) / 40 above
\* its own; equal mid.y is the special case.
C10_SmallerLeftFirst ==
    Sorted =>
        \A a, b \in 1..Len(lines) :
            /\ lines[a].left < lines[b].left
            /\ KeyDivisor * (lines[a].midy - lines[b].midy) < lines[b].left - lines[a].left
            => a < b

\* lines is res.lines rearranged.
IsPermutation(s, t) ==
    /\ Len(s) = Len(t)
    /\ \A x \in {s[k] : k \in 1..Len(s)} :
          Cardinality({k \in 1..Len(s) : s[k] = x}) = Cardinality({k \in 1..Len(t) : t[k] = x})

\* C10 amended: the sequence merged is the service's lines in ascending order
\* of the f32 key; of two lines with equal mid.y whose lefts are at least 2^-16
\* apart the one with the smaller left comes first (closer lefts can round to
\* the same key, and then the service's order stands).
C10_SortedByKey ==
    Sorted =>
        /\ IsPermutation(lines, res.lines)
        /\ \A a, b \in 1..Len(lines) :
              /\ SortKey(lines[a]) < SortKey(lines[b]) => a < b
              /\ (/\ lines[a].midy = lines[b].midy
                  /\ lines[b].left - lines[a].left >= 256) => a < b

\* The service sent left 0.5 before left 0.1 at the same height; they are
\* merged in the other order.
C10_Witness ==
    /\ Sorted
    /\ Len(lines) = 2
    /\ res.lines[1].left = 8388608 /\ res.lines[2].left = 1677722
    /\ res.lines[1].midy = res.lines[2].midy
    /\ lines[1].left = 1677722 /\ lines[2].left = 8388608

--------------------------------------------------------------------------
(* extract_image on given vertex lists and pages *)

MaskMaxVertexes == 3

P(x, y) == Pt(x * Sub, y * Sub)

Square(a, b, n) == <<P(a, b), P(a + n, b), P(a + n, b + n), P(a, b + n)>>

SquareReversed(a, b, n) == <<P(a, b), P(a, b + n), P(a + n, b + n), P(a + n, b)>>

Bowtie(a, b, n) == <<P(a, b), P(a + n, b + n), P(a + n, b), P(a, b + n)>>

ShapeOrigins == {0, 3, 6}

ShapeSizes == {4, 10}

\* (1,1), (5,1), (5,5), (1,5), (2.5,3.5), (8.5,2.5)
FreePoints == {Pt(2, 2), Pt(10, 2), Pt(10, 10), Pt(2, 10), Pt(5, 7), Pt(17, 5)}

VertexLists ==
    {Square(a, b, n) : a \in ShapeOrigins, b \in ShapeOrigins, n \in ShapeSizes}
        \cup {SquareReversed(a, b, n) : a \in ShapeOrigins, b \in ShapeOrigins, n \in ShapeSizes}
        \cup {Bowtie(a, b, n) : a \in ShapeOrigins, b \in ShapeOrigins, n \in ShapeSizes}
        \cup SeqsOf(FreePoints, 0, MaskMaxVertexes)

\* The 1 x 1 image the program starts with, and two pages.
PageSizes == {[w |-> 1, h |-> 1], [w |-> 12, h |-> 10], [w |-> 20, h |-> 20]}

InitMask ==
    /\ pc = "idle"
    /\ res = [ok |-> TRUE, lines |-> NoLines]
    /\ lines = <<>>
    /\ image_width = 0
    /\ i = 0
    /\ text = <<>>
    /\ dehyphenating = FALSE
    /\ ret = <<>>
    /\ mask = NotCalled
    /\ image \in PageSizes
    /\ vertexes \in VertexLists
    /\ draft_text = <<>>
    /\ retained_crop = [w |-> 1, h |-> 1]
    /\ articles = <<>>
    /\ open_article = 0
    /\ extracted = [called |-> FALSE, vertexes |-> <<>>, ok |-> TRUE, string |-> <<>>]
    /\ scaler = NoScaler
    /\ state = FirstPage

SpecMask == InitMask /\ [][NextMask]_vars

--------------------------------------------------------------------------
(* Properties of the mask extractor *)

Called == mask.kind # "idle"

\* C3: on an empty vertex list the extractor reports EmptyRegion.
C3_EmptyReportsEmptyRegion ==
    (Called /\ vertexes = <<>>) => mask.kind = "EmptyRegion"

\* The claim's box: each edge of the bounding box moved out by the margin,
\* cut to a whole pixel and clamped to the page on its own.
IsClampedEdge(e, v, limit) ==
    \/ v < 0 /\ e = 0
    \/ v >= limit * Sub /\ e = limit
    \/ 0 <= v /\ v < limit * Sub /\ e * Sub <= v /\ v < (e + 1) * Sub

BoundsX == {vertexes[k].x : k \in 1..Len(vertexes)}
BoundsY == {vertexes[k].y : k \in 1..Len(vertexes)}

IsClaimedBox(b) ==
    /\ IsClampedEdge(b.x0, Min(BoundsX) - 4 * Sub, image.w)
    /\ IsClampedEdge(b.x1, Max(BoundsX) + 4 * Sub, image.w)
    /\ IsClampedEdge(b.y0, Min(BoundsY) - 4 * Sub, image.h)
    /\ IsClampedEdge(b.y1, Max(BoundsY) + 4 * Sub, image.h)

ZeroArea ==
    \E b \in [x0 : 0..image.w, x1 : 0..image.w, y0 : 0..image.h, y1 : 0..image.h] :
        IsClaimedBox(b) /\ (b.x0 = b.x1 \/ b.y0 = b.y1)

\* C4: a box of zero area makes the extractor report DegenerateRegion.
C4_ZeroAreaReportsDegenerateRegion ==
    (Called /\ vertexes # <<>> /\ ZeroArea) => mask.kind = "DegenerateRegion"

\* The crop pixel (x, y) as a point of the page, in 1/Sub.
PageX(x) == (mask.box.x0 + x) * Sub
PageY(y) == (mask.box.y0 + y) * Sub

CropPixels ==
    (0..(mask.box.x1 - mask.box.x0 - 1)) \X (0..(mask.box.y1 - mask.box.y0 - 1))

Next1(k) == IF k = Len(vertexes) THEN 1 ELSE k + 1

\* Edges crossed by the +x ray from page point (x, y), the closing edge
\* included, counted on the page rather than in the crop.
CrossedEdges(x, y) ==
    {k \in 1..Len(vertexes) :
        ray_intersect(x, y, vertexes[k].x, vertexes[k].y,
                      vertexes[Next1(k)].x, vertexes[Next1(k)].y)}

Cross(a, b, c) == (b.x - a.x) * (c.y - a.y) - (b.y - a.y) * (c.x - a.x)

Turn(k) == Cross(vertexes[k], vertexes[Next1(k)], vertexes[Next1(Next1(k))])

\* A triangle or quadrilateral all of whose corners turn the same way.
SimpleConvex ==
    /\ Len(vertexes) \in {3, 4}
    /\ \/ \A k \in 1..Len(vertexes) : Turn(k) > 0
       \/ \A k \in 1..Len(vertexes) : Turn(k) < 0

StrictlyInsideConvex(c) ==
    \A k \in 1..Len(vertexes) :
        Cross(vertexes[k], vertexes[Next1(k)], c) * Turn(1) > 0

OutsideBounds(c) ==
    \/ c.x < Min(BoundsX) \/ c.x > Max(BoundsX)
    \/ c.y < Min(BoundsY) \/ c.y > Max(BoundsY)

\* C7: a crop pixel is interior iff the +x ray from it crosses an odd number of
\* the polygon's edges, closing edge included; every pixel strictly inside a
\* simple convex polygon is interior; every pixel strictly outside the
\* bounding box of any polygon is exterior.  A pixel is the point (x, y).
C7_ParityClassification ==
    (Called /\ mask.kind = "crop") =>
        \A p \in CropPixels :
            LET c == Pt(PageX(p[1]), PageY(p[2]))
            IN  /\ p \in mask.inside <=> Cardinality(CrossedEdges(c.x, c.y)) % 2 = 1
                /\ (SimpleConvex /\ StrictlyInsideConvex(c)) => p \in mask.inside
                /\ OutsideBounds(c) => p \notin mask.inside

\* The square (0,0),(10,0),(10,10),(0,10) on the 20 x 20 page: (5,5) is kept,
\* (12,5) and (5,12), in the margin, are not.
C7_Witness ==
    /\ Called /\ mask.kind = "crop"
    /\ vertexes = Square(0, 0, 10)
    /\ image = [w |-> 20, h |-> 20]
    /\ <<5, 5>> \in mask.inside
    /\ <<12, 5>> \in CropPixels \ mask.inside
    /\ <<5, 12>> \in CropPixels \ mask.inside

IsBowtie == \E a \in ShapeOrigins, b \in ShapeOrigins, n \in ShapeSizes : vertexes = Bowtie(a, b, n)

\* Position of a page point relative to the bowtie's corner, and its size.
BowU(c) == c.x - vertexes[1].x
BowV(c) == c.y - vertexes[1].y
BowN == vertexes[2].x - vertexes[1].x

InLeftLobe(c) == 0 < BowU(c) /\ BowU(c) < BowV(c) /\ BowU(c) < BowN - BowV(c)
InRightLobe(c) == BowU(c) < BowN /\ BowU(c) > BowV(c) /\ BowU(c) > BowN - BowV(c)
InWaist(c) ==
    \/ 0 < BowV(c) /\ BowV(c) < BowU(c) /\ BowU(c) < BowN - BowV(c)
    \/ BowV(c) < BowN /\ BowN - BowV(c) < BowU(c) /\ BowU(c) < BowV(c)
OnLeftLobe(c) == 0 <= BowU(c) /\ BowU(c) <= BowV(c) /\ BowU(c) <= BowN - BowV(c)
OnRightLobe(c) == BowU(c) <= BowN /\ BowU(c) >= BowV(c) /\ BowU(c) >= BowN - BowV(c)

C9_MarginAndClamping ==
    (Called /\ vertexes # <<>>) =>
        /\ IsClaimedBox(mask.box)
        /\ 0 <= mask.box.x0 /\ mask.box.x0 <= mask.box.x1 /\ mask.box.x1 <= image.w
        /\ 0 <= mask.box.y0 /\ mask.box.y0 <= mask.box.y1 /\ mask.box.y1 <= image.h
        /\ mask.kind = "crop" =>
              \A p \in CropPixels :
                  mask.box.x0 + p[1] < image.w /\ mask.box.y0 + p[2] < image.h
        /\ mask.kind = "panic" => (mask.box.x0 = mask.box.x1 \/ mask.box.y0 = mask.box.y1)

\* A square touching x = 0 and y = 0 on the 12 x 10 page: the box starts at 0
\* and ends at the page's edges.
C9_Witness ==
    /\ Called /\ mask.kind = "crop"
    /\ vertexes = Square(0, 0, 10)
    /\ image = [w |-> 12, h |-> 10]
    /\ mask.box = [x0 |-> 0, x1 |-> 12, y0 |-> 0, y1 |-> 10]
    /\ mask.inside # {}

--------------------------------------------------------------------------
(* Properties of the front end *)

\* C5: a failed recognition call gives the text of zero lines, and no failure
\* description ever becomes part of an article's text.
C5_ServiceErrorIsNoLines ==
    /\ (extracted.called /\ ~extracted.ok)
           => extracted.string = merge_lines(NoLines, retained_crop.w).text
    /\ \A k \in 1..Len(articles) : ~Contains(articles[k].text, ErrorText)

\* C6: whenever an Append or Append P stores a polygon, the vertex list it
\* stores is the one the last Extract ran on.
C6_Traceability ==
    [][TotalPolys' > TotalPolys
          => extracted.called /\ extracted.vertexes = vertexes]_vars

--------------------------------------------------------------------------
(* The Scaler's two functions, called one after the other on a point *)

MaxCalls == 2

\* The f32 values the inputs are drawn from.
F32Lit ==
    [ zero |-> F32Zero,
      half |-> [m |-> 1, e |-> -1],
      one |-> [m |-> 1, e |-> 0],
      three |-> [m |-> 3, e |-> 0],
      eight |-> [m |-> 1, e |-> 3],
      eighth |-> [m |-> 1, e |-> -3],            \* DEFAULT_SCALE
      tenth |-> [m |-> 13421773, e |-> -27],     \* 0.1
      threeTenths |-> [m |-> 5033165, e |-> -24], \* 0.3
      minus07 |-> [m |-> -11744051, e |-> -24],  \* -0.7
      minus40 |-> [m |-> -5, e |-> 3],
      x100_3 |-> [m |-> 6573261, e |-> -16],     \* 100.3
      x960 |-> [m |-> 15, e |-> 6],
      x1000_7 |-> [m |-> 16395469, e |-> -14],  \* 1000.7
      big |-> [m |-> 1, e |-> 24] ]              \* 16777216

Scales == {F32Lit.eighth, F32Lit.one, F32Lit.three, F32Lit.tenth}

Offsets ==
    { Vec(F32Lit.zero, F32Lit.zero),
      Vec(F32Lit.minus40, F32Lit.x1000_7),
      Vec(F32Lit.big, F32Lit.eight) }

LeftTops == {Vec(F32Lit.zero, F32Lit.zero), Vec(F32Lit.eight, F32Lit.threeTenths)}

Points ==
    { Vec(F32Lit.zero, F32Lit.one),
      Vec(F32Lit.x960, F32Lit.half),
      Vec(F32Lit.one, F32Lit.x960),
      Vec(F32Lit.x100_3, F32Lit.minus07) }

\* A call of scaler.screen_to_image on the current point.
ScreenToImage ==
    /\ scaler # NoScaler
    /\ Len(scaler.ops) < MaxCalls
    /\ scaler' = [scaler EXCEPT !.cur = Scaler_screen_to_image(scaler.sc, @),
                                !.ops = Append(@, "screen_to_image")]
    /\ UNCHANGED textVars
    /\ UNCHANGED mask
    /\ UNCHANGED appVars
    /\ UNCHANGED state

\* A call of scaler.image_to_screen on the current point.
ImageToScreen ==
    /\ scaler # NoScaler
    /\ Len(scaler.ops) < MaxCalls
    /\ scaler' = [scaler EXCEPT !.cur = Scaler_image_to_screen(scaler.sc, @),
                                !.ops = Append(@, "image_to_screen")]
    /\ UNCHANGED textVars
    /\ UNCHANGED mask
    /\ UNCHANGED appVars
    /\ UNCHANGED state

NextScaler == ScreenToImage \/ ImageToScreen

InitScaler ==
    /\ pc = "idle"
    /\ res = [ok |-> TRUE, lines |-> NoLines]
    /\ lines = <<>>
    /\ image_width = 0
    /\ i = 0
    /\ text = <<>>
    /\ dehyphenating = FALSE
    /\ ret = <<>>
    /\ mask = NotCalled
    /\ image = [w |-> 1, h |-> 1]
    /\ vertexes = <<>>
    /\ draft_text = <<>>
    /\ retained_crop = [w |-> 1, h |-> 1]
    /\ articles = <<>>
    /\ open_article = 0
    /\ extracted = [called |-> FALSE, vertexes |-> <<>>, ok |-> TRUE, string |-> <<>>]
    /\ \E scale \in Scales, offset \in Offsets, left_top \in LeftTops, p \in Points :
          scaler = [sc |-> [scale |-> scale, offset |-> offset, left_top |-> left_top],
                    start |-> p, cur |-> p, ops |-> <<>>]
    /\ state = FirstPage

SpecScaler == InitScaler /\ [][NextScaler]_vars

--------------------------------------------------------------------------
(* Properties of the Scaler *)

ThereAndBack == scaler.ops = <<"screen_to_image", "image_to_screen">>

BackAndThere == scaler.ops = <<"image_to_screen", "screen_to_image">>

\* C12 as claimed: the two functions are exact inverses of each other.
C12_ExactInverses ==
    (ThereAndBack \/ BackAndThere) => scaler.cur = scaler.start

F32Max(a, b) == IF F32Leq(a, b) THEN b ELSE a

\* |a - b| <= 2^-20 * bound (the difference as f32 computes it).
Within(a, b, bound) ==
    F32Leq(F32Abs(F32Minus(a, b)), F32Times([m |-> 1, e |-> -20], bound))

\* v is a multiple of 2^-8 of magnitude below 2^13: sums of three such values
\* are f32 values.
OnGrid(v) == v.m = 0 \/ (v.e >= -8 /\ ~F32Leq([m |-> 1, e |-> 13], F32Abs(v)))

IsPowerOfTwo(v) == v.m = 1

\* C12 amended: the round trip returns each coordinate to within 2^-20 times
\* the largest magnitude involved (in the units of the point), and exactly when
\* the scale is a power of two and the screen-space terms are on the grid.
C12_RoundTripWithinRounding ==
    \A c \in {"x", "y"} :
        LET sc == scaler.sc
            p == scaler.start[c]
            r == scaler.cur[c]
            o == sc.offset[c]
            lt == sc.left_top[c]
        IN  /\ ThereAndBack =>
                /\ Within(r, p, F32Max(F32Abs(p), F32Max(F32Abs(lt), F32Abs(o))))
                /\ (IsPowerOfTwo(sc.scale) /\ OnGrid(p) /\ OnGrid(lt) /\ OnGrid(o))
                       => r = p
            /\ BackAndThere =>
                /\ Within(r, p, F32Max(F32Abs(p),
                                       F32Max(F32Over(F32Abs(lt), sc.scale),
                                              F32Over(F32Abs(o), sc.scale))))
                /\ (IsPowerOfTwo(sc.scale) /\ OnGrid(F32Times(p, sc.scale))
                        /\ OnGrid(lt) /\ OnGrid(o))
                       => r = p

\* Screen point (1, 960) at the program's scale 0.125 with pan (-40, 1000.7):
\* x comes back as 1, y as 960 less 2^-14.
C12_Witness ==
    /\ ThereAndBack
    /\ scaler.sc.scale = F32Lit.eighth
    /\ scaler.sc.offset = Vec(F32Lit.minus40, F32Lit.x1000_7)
    /\ scaler.sc.left_top = Vec(F32Lit.zero, F32Lit.zero)
    /\ scaler.start = Vec(F32Lit.one, F32Lit.x960)
    /\ scaler.cur = Vec(F32Lit.one, [m |-> 15728639, e |-> -14])

\* C14: the Extract button can be pressed only while the committed vertex list
\* holds at least 4 (so at least 3) vertices, and extract_image never runs on
\* an empty list.
C14_ExtractNeedsVertices ==
    /\ [][Len(vertexes) < 4 => ~Extract]_vars
    /\ [](Called => mask # Panicked)

\* An Extract on five vertices has happened and two middle clicks have taken
\* the list down to three: the popup is gone.
C14_Witness ==
    /\ extracted.called
    /\ Len(extracted.vertexes) = 5
    /\ mask.kind = "crop"
    /\ Len(vertexes) = 3
    /\ ~PopupShown


=============================================================================

